---- MODULE Spec2Model ----
(***************************************************************************)
(* A model of track (src/main.go, the third and most complete draft,       *)
(* lines 277-535): a time log kept as a CSV file.  The file is a sequence  *)
(* of bytes; encoding/csv reads it into rows and writes rows back.  The    *)
(* operations are the command entry points Begin, End, Next, Run, Wait and *)
(* Total, and under them beginEntry and endEntry.                          *)
(***************************************************************************)
EXTENDS Integers, Sequences, FiniteSets, TLC

VARIABLES
    file,       \* the bytes of the log file on disk
    now,        \* the last value the clock returned (time.Now is non-decreasing)
    last,       \* the record of the last command: what ran, on what, with what result
    runPc,      \* the process of a `run` command: "idle" (none), or "waiting"
                \* (Begin has returned, Wait has not)
    call,       \* a function of the program applied on its own: its name,
                \* argument and, once applied, result
    procs       \* two invocations running at once: what each does, how far it
                \* is, and what its read found

vars == <<file, now, last, runPc, call, procs>>

\* What a command running alone leaves untouched.
aside == <<call, procs>>

----------------------------------------------------------------------------
(* Bounds of the model.                                                    *)

ClockStart == 8         \* the first clock value an operation may read
MaxClock == 10          \* operations stop once the clock has passed this
MaxFileLen == 14        \* no log is longer than this many bytes
MaxInitRecords == 2     \* SpecLog starts from logs of at most this many rows
MaxFields == 3          \* ... each of at most this many fields

----------------------------------------------------------------------------
(* Bytes and timestamps.                                                   *)

NL == "\n"
COMMA == ","
Digits == <<"0", "1", "2", "3", "4", "5", "6", "7", "8", "9">>

Min(a, b) == IF a <= b THEN a ELSE b

RECURSIVE FormatNat(_)
FormatNat(n) == IF n < 10 THEN <<Digits[n + 1]>>
                ELSE FormatNat(n \div 10) \o <<Digits[(n % 10) + 1]>>

\* currentTime: the clock value t rendered as text.  The text has no comma,
\* quote or line break and does not start with a space, and its length varies
\* with the value (time.Time.String drops trailing zeros of the fraction).
currentTime(t) == FormatNat(t)

DigitValue(c) == CHOOSE d \in 0..9 : Digits[d + 1] = c

RECURSIVE ParseTime(_)
\* The instant a timestamp field denotes: the inverse of currentTime.
ParseTime(s) == IF Len(s) = 0 THEN 0
                ELSE 10 * ParseTime(SubSeq(s, 1, Len(s) - 1)) + DigitValue(s[Len(s)])

----------------------------------------------------------------------------
(* encoding/csv as the program uses it.                                    *)

RECURSIVE SplitFrom(_, _, _, _, _)
SplitFrom(s, sep, i, cur, acc) ==
    IF i > Len(s) THEN Append(acc, cur)
    ELSE IF s[i] = sep THEN SplitFrom(s, sep, i + 1, <<>>, Append(acc, cur))
    ELSE SplitFrom(s, sep, i + 1, Append(cur, s[i]), acc)

\* The pieces of s between occurrences of sep (n separators give n+1 pieces).
Split(s, sep) == SplitFrom(s, sep, 1, <<>>, <<>>)

IsNonEmpty(l) == Len(l) > 0

\* csv.Reader.ReadAll with FieldsPerRecord = -1: one row per non-empty line,
\* a final line needs no line break, fields are what the commas separate.
csvReadAll(bytes) ==
    LET lines == SelectSeq(Split(bytes, NL), IsNonEmpty)
    IN [i \in 1..Len(lines) |-> Split(lines[i], COMMA)]

RECURSIVE JoinFields(_)
JoinFields(rec) == IF Len(rec) = 0 THEN <<>>
                   ELSE IF Len(rec) = 1 THEN rec[1]
                   ELSE rec[1] \o <<COMMA>> \o JoinFields(Tail(rec))

csvEncode_NoNewline(rec) == JoinFields(rec)

\* csv.Writer.Write followed by Flush: the fields joined by commas, then a
\* line break.  No field of the model needs quoting.
csvEncode(rec) == JoinFields(rec) \o <<NL>>

----------------------------------------------------------------------------
(* The stream: an open file with a position.                               *)

\* os.OpenFile(path, O_RDWR|O_CREATE): the file's bytes, positioned at 0.
OpenFile(bytes) == [data |-> bytes, pos |-> 0]

NoFault == [kind |-> "none", n |-> 0]

\* A write of bytes at the stream's position: it overwrites what is there and
\* extends the file past its end.  A failing write transfers only fault.n bytes.
streamWrite(rw, bytes, fault) ==
    LET sent == IF fault.kind = "write" THEN SubSeq(bytes, 1, Min(fault.n, Len(bytes) - 1))
                ELSE bytes
        upto == rw.pos + Len(sent)
    IN [data |-> SubSeq(rw.data, 1, rw.pos) \o sent \o SubSeq(rw.data, upto + 1, Len(rw.data)),
        pos |-> upto]

\* rw.Seek(-back, 2): the position becomes back bytes before the end; a seek
\* that fails (or would land before the start) leaves the position alone.
streamSeekEnd(rw, back, fault) ==
    IF fault.kind = "seek" \/ Len(rw.data) - back < 0 THEN rw
    ELSE [rw EXCEPT !.pos = Len(rw.data) - back]

\* rw.Seek(0, 0): the position becomes the start of the stream; a seek that
\* fails leaves the position alone.
streamSeekStart(rw, fault) ==
    IF fault.kind = "seek" THEN rw ELSE [rw EXCEPT !.pos = 0]

----------------------------------------------------------------------------
(* Errors.                                                                 *)

NoErr == [kind |-> "nil", BadLines |-> <<>>, LastIsBad |-> FALSE]
IOErr == [kind |-> "io", BadLines |-> <<>>, LastIsBad |-> FALSE]
NoIncompleteErr == [kind |-> "no incomplete entry to end", BadLines |-> <<>>, LastIsBad |-> FALSE]
FormatError(badLines, lastIsBad) ==
    [kind |-> "format", BadLines |-> badLines, LastIsBad |-> lastIsBad]

IsFormatError(err) == err.kind = "format"

JustIncomplete(e) == Len(e.BadLines) = 1 /\ e.LastIsBad

----------------------------------------------------------------------------
(* readEntries.                                                            *)

RECURSIVE scanEntries_OpenIsGood(_, _, _)
scanEntries_OpenIsGood(entries, i, fe) ==
    IF i > Len(entries) THEN fe
    ELSE IF Len(entries[i]) \in {1, 2}
         THEN scanEntries_OpenIsGood(entries, i + 1, [fe EXCEPT !.LastIsBad = FALSE])
         ELSE scanEntries_OpenIsGood(entries, i + 1,
                          [fe EXCEPT !.LastIsBad = TRUE, !.BadLines = Append(@, i)])

RECURSIVE scanEntries(_, _, _)
\* The loop of readEntries over entries[i..]: fe is the FormatError so far.
scanEntries(entries, i, fe) ==
    IF i > Len(entries) THEN fe
    ELSE IF Len(entries[i]) = 2
         THEN scanEntries(entries, i + 1, [fe EXCEPT !.LastIsBad = FALSE])
         ELSE scanEntries(entries, i + 1,
                          [fe EXCEPT !.LastIsBad = TRUE, !.BadLines = Append(@, i)])

\* readEntries(r, filter): every row of the stream from its position on, and a
\* FormatError when a row has other than two fields.  filter is not consulted.
\* A failing read stops after fault.n bytes and returns the read's error.
readEntries(rw, filter, fault) ==
    IF fault.kind = "read"
    THEN [rw |-> [rw EXCEPT !.pos = Min(rw.pos + fault.n, Len(rw.data))],
          entries |-> <<>>, err |-> IOErr]
    ELSE LET entries == csvReadAll(SubSeq(rw.data, rw.pos + 1, Len(rw.data)))
             fe == scanEntries(entries, 1, FormatError(<<>>, FALSE))
         IN [rw |-> [rw EXCEPT !.pos = Len(rw.data)],
             entries |-> entries,
             err |-> IF Len(fe.BadLines) > 0 THEN fe ELSE NoErr]

----------------------------------------------------------------------------
(* spokenList: a list of line numbers as an English list.  Text is a      *)
(* sequence of characters.                                                 *)

\* fmt.Sprint of an int.
Sprint(n) == IF n < 0 THEN <<"-">> \o FormatNat(-n) ELSE FormatNat(n)

separatorAfter_AlwaysComma(i, n) ==
    IF i < n - 2 THEN <<",", " ">>
    ELSE IF i < n - 1 THEN <<",", " ", "a", "n", "d", " ">>
    ELSE <<>>

\* Lines 524-532: what follows item i (counted from 0) of n items.
separatorAfter(i, n) ==
    IF i < n - 2 THEN <<",", " ">>
    ELSE IF i < n - 1
         THEN IF n = 2 THEN <<" ", "a", "n", "d", " ">>
              ELSE <<",", " ", "a", "n", "d", " ">>
    ELSE <<>>

RECURSIVE spokenLoop(_, _, _)
\* The loop of spokenList from item i (counted from 0) on, b the buffer so far.
spokenLoop(list, i, b) ==
    IF ~(i < Len(list)) THEN b
    ELSE spokenLoop(list, i + 1, b \o Sprint(list[i + 1]) \o separatorAfter(i, Len(list)))

spokenList(list) == spokenLoop(list, 0, <<>>)

----------------------------------------------------------------------------
(* beginEntry and endEntry.  Each takes the stream, the force flag, the     *)
(* value t the clock returns and the fault the storage suffers, and gives   *)
(* the stream afterwards, the error returned, the line printed on standard  *)
(* output, whether a warning went to standard error, and whether a call on  *)
(* the storage failed.                                                      *)

Outcome(rw, err, out, warn, failed, core) ==
    [rw |-> rw, err |-> err, out |-> out, warn |-> warn, failed |-> failed, core |-> core]

\* Lines 481-484: with an error from readEntries, beginEntry returns it only
\* when  !(force || ok)  holds, ok being "err is a *FormatError".
beginReturnsError(err, force) == err # NoErr /\ ~(force \/ IsFormatError(err))

beginEntry(rw, force, t, fault) ==
    LET r == readEntries(rw, FALSE, fault)
    IN IF beginReturnsError(r.err, force)
       THEN Outcome(r.rw, r.err, "", FALSE, fault.kind = "read", "begin")
       ELSE Outcome(streamWrite(r.rw, csvEncode(<<currentTime(t)>>), fault),
                    NoErr, "BEGIN", r.err # NoErr,
                    fault.kind \in {"read", "write"}, "begin")

rewindOffset_NoSeparator(row) == Len(row[1])

rewindOffset_WholeRow(row) == Len(JoinFields(row)) + 1

\* Line 507: how far before the end of the stream the last row is taken to
\* start: the length of its first field, plus one.
rewindOffset(row) == Len(row[1]) + 1

\* Line 506: the last row with the current time appended.
completedRow(entry, t) == Append(entry, currentTime(t))

\* Lines 499-502: with the last line bad, endEntry still returns the error
\* when more than one line is bad and force is off.
endRefuses(ferr, force) == Len(ferr.BadLines) > 1 /\ ~force

endNoError_Proceeds == NoErr

\* Line 516: what endEntry returns when readEntries found nothing wrong.
endNoError == NoIncompleteErr

endEntry(rw, force, t, fault) ==
    LET r == readEntries(rw, FALSE, fault)
    IN IF r.err = NoErr
       THEN Outcome(r.rw, endNoError, "", FALSE, FALSE, "end")
       ELSE IF ~(IsFormatError(r.err) /\ r.err.LastIsBad)
       THEN Outcome(r.rw, r.err, "", FALSE, fault.kind = "read", "end")
       ELSE IF endRefuses(r.err, force)
       THEN Outcome(r.rw, r.err, "", FALSE, FALSE, "end")
       ELSE LET row == completedRow(r.entries[Len(r.entries)], t)
                at == streamSeekEnd(r.rw, rewindOffset(row), fault)
            IN Outcome(streamWrite(at, csvEncode(row), fault),
                       NoErr, "END", Len(r.err.BadLines) > 1,
                       fault.kind \in {"seek", "write"}, "end")

----------------------------------------------------------------------------
(* The commands.                                                           *)

\* Begin(path) and End(path) open the file and call the entry with force on.
Begin(bytes, t, fault) == beginEntry(OpenFile(bytes), TRUE, t, fault)
End(bytes, t, fault) == endEntry(OpenFile(bytes), TRUE, t, fault)

nextEnds_Never(err) == FALSE

\* Lines 404-415: Next ends the entry when readEntries reports a FormatError
\* whose LastIsBad is set, and begins one otherwise.
nextEnds(err) == IsFormatError(err) /\ err.LastIsBad

\* Next(path): read, seek back to the start, then end or begin.  An error of
\* the read that is no FormatError is returned as it is.  fault is what the
\* storage suffers in Next's own read and seek (lines 402-403), inner what it
\* suffers inside endEntry or beginEntry.  The result of the seek is dropped,
\* so after a failed seek the entry reads from where the first read stopped.
NextCmd(bytes, t, fault, inner) ==
    LET r == readEntries(OpenFile(bytes), FALSE, fault)
        f == streamSeekStart(r.rw, fault)
        o == IF nextEnds(r.err) THEN endEntry(f, TRUE, t, inner)
             ELSE beginEntry(f, TRUE, t, inner)
    IN IF r.err # NoErr /\ ~IsFormatError(r.err)
       THEN Outcome(f, r.err, "", FALSE, TRUE, "none")
       ELSE [o EXCEPT !.failed = @ \/ fault.kind = "seek"]

\* Total(path) returns nil and yields no sum (line 383).
NoTotal == [present |-> FALSE, value |-> 0]
Total(bytes) == [err |-> NoErr, total |-> NoTotal]

\* Wait(path) returns nil at once (line 436).
Wait(bytes) == [err |-> NoErr, data |-> bytes]

----------------------------------------------------------------------------
(* The state machine.                                                      *)

\* What the last command did.  nexts counts the calls of next made in a row
\* since the file was created, and is -1 once another command has run.
LastOf(cmd, o, force, t, fault, before) ==
    [cmd |-> cmd, core |-> o.core, force |-> force, t |-> t,
     fault |-> IF o.failed THEN fault ELSE NoFault, outer |-> NoFault,
     before |-> before, err |-> o.err, out |-> o.out, warn |-> o.warn,
     failed |-> o.failed, total |-> NoTotal, pos |-> o.rw.pos,
     nexts |-> IF cmd = "next" /\ o.err = NoErr /\ last.nexts >= 0
               THEN last.nexts + 1 ELSE -1]

NoCommand ==
    [cmd |-> "none", core |-> "none", force |-> FALSE, t |-> 0, fault |-> NoFault,
     outer |-> NoFault,
     before |-> <<>>, err |-> NoErr, out |-> "", warn |-> FALSE, failed |-> FALSE,
     total |-> NoTotal, pos |-> 0, nexts |-> 0]

\* The faults the storage can suffer during one command on the file.
Faults == {NoFault, [kind |-> "seek", n |-> 0]}
          \cup [kind : {"read"}, n : 0..Len(file)]
          \cup [kind : {"write"}, n : 0..2]

\* The values the clock may return next.
Clock == {t \in {now, now + 1} : t <= MaxClock}

Fits(o) == Len(o.rw.data) <= MaxFileLen

\* Commands run one at a time, and a behaviour is followed up to the first
\* command that a storage fault strikes.
Ready == runPc = "idle" /\ ~last.failed

\* A command that calls beginEntry or endEntry with the given force flag
\* (Begin and End themselves pass force = true).
DoBeginEntry(F) ==
    /\ Ready
    /\ \E force \in BOOLEAN, t \in Clock, fault \in F :
        LET o == beginEntry(OpenFile(file), force, t, fault)
        IN /\ Fits(o)
           /\ file' = o.rw.data
           /\ now' = t
           /\ last' = LastOf("begin", o, force, t, fault, file)
           /\ UNCHANGED <<runPc, aside>>

DoEndEntry(F) ==
    /\ Ready
    /\ \E force \in BOOLEAN, t \in Clock, fault \in F :
        LET o == endEntry(OpenFile(file), force, t, fault)
        IN /\ Fits(o)
           /\ file' = o.rw.data
           /\ now' = t
           /\ last' = LastOf("end", o, force, t, fault, file)
           /\ UNCHANGED <<runPc, aside>>

\* Next suffers a fault in its own read or seek, in the entry it calls, or in
\* both; when its own read fails it calls no entry.
DoNext(F) ==
    /\ Ready
    /\ \E t \in Clock, fault \in {f \in F : f.kind # "write"}, inner \in F :
        LET o == NextCmd(file, t, fault, inner)
        IN /\ fault.kind = "read" => inner = NoFault
           /\ Fits(o)
           /\ file' = o.rw.data
           /\ now' = t
           /\ last' = [LastOf("next", o, TRUE, t, inner, file) EXCEPT !.outer = fault]
           /\ UNCHANGED <<runPc, aside>>

DoTotal ==
    /\ Ready
    /\ last.cmd # "total"
    /\ last' = [NoCommand EXCEPT !.cmd = "total", !.before = file, !.nexts = -1,
                                 !.err = Total(file).err, !.total = Total(file).total]
    /\ UNCHANGED <<file, now, runPc, aside>>

\* Run(path), first half: Begin; an error ends the command.
RunBegin(F) ==
    /\ Ready
    /\ \E t \in Clock, fault \in F :
        LET o == Begin(file, t, fault)
        IN /\ Fits(o)
           /\ file' = o.rw.data
           /\ now' = t
           /\ last' = LastOf("run", o, TRUE, t, fault, file)
           /\ runPc' = IF o.err = NoErr THEN "waiting" ELSE "idle"
           /\ UNCHANGED aside

\* Run(path), second half: Wait returns and the process exits.
RunWait ==
    /\ runPc = "waiting" /\ ~last.failed
    /\ runPc' = "idle"
    /\ file' = Wait(file).data
    /\ last' = [NoCommand EXCEPT !.cmd = "wait", !.before = file, !.nexts = -1,
                                 !.err = Wait(file).err]
    /\ UNCHANGED <<now, aside>>

\* A termination signal reaches the process of run before Wait has returned.
\* The program installs no handler, so the process ends there.
Signal ==
    /\ runPc = "waiting" /\ ~last.failed
    /\ runPc' = "idle"
    /\ last' = [NoCommand EXCEPT !.cmd = "signal", !.before = file, !.nexts = -1]
    /\ UNCHANGED <<file, now, aside>>

NoCall == [fn |-> "none", arg |-> <<>>, filter |-> FALSE, done |-> FALSE, result |-> <<>>]
NoProcs == <<>>

\* The file O_CREATE makes: empty.
Init ==
    /\ file = <<>>
    /\ now = ClockStart
    /\ last = NoCommand
    /\ runPc = "idle"
    /\ call = NoCall
    /\ procs = NoProcs

Next ==
    \/ DoBeginEntry({NoFault})
    \/ DoEndEntry({NoFault})
    \/ DoNext({NoFault})
    \/ DoTotal
    \/ RunBegin({NoFault})
    \/ RunWait
    \/ Signal

\* From the empty log, the storage never failing.
Spec == Init /\ [][Next]_vars

\* The rows a log given to the program may hold: one to MaxFields fields.
\* a first field of either length, then fields of one value.
InitRows == {[i \in 1..n |-> IF i = 1 THEN first ELSE currentTime(3)] :
                n \in 1..MaxFields, first \in {currentTime(3), currentTime(10)}}
InitLogs == UNION {[1..n -> InitRows] : n \in 0..MaxInitRecords}

RECURSIVE encodeLog(_)
\* The file the writer produces for a sequence of rows.
encodeLog(rows) == IF Len(rows) = 0 THEN <<>>
                   ELSE csvEncode(Head(rows)) \o encodeLog(Tail(rows))

InitLog ==
    /\ file \in {f \in {encodeLog(rows) : rows \in InitLogs} : Len(f) <= MaxFileLen}
    /\ now = ClockStart
    /\ last = NoCommand
    /\ runPc = "idle"
    /\ call = NoCall
    /\ procs = NoProcs

\* From any log of rows the writer encodes, the storage never failing.
SpecLog == InitLog /\ [][Next]_vars

NextIO ==
    \/ DoBeginEntry(Faults)
    \/ DoEndEntry(Faults)
    \/ DoNext(Faults)
    \/ DoTotal
    \/ RunBegin(Faults)
    \/ RunWait
    \/ Signal

\* From the empty log, each command suffering at most one storage fault.
SpecIO == Init /\ [][NextIO]_vars

----------------------------------------------------------------------------
(* What the claims speak of.                                               *)

Rows(bytes) == csvReadAll(bytes)
LastRow(bytes) == Rows(bytes)[Len(Rows(bytes))]
IsOpen(row) == Len(row) = 1
IsClosed(row) == Len(row) = 2
AllClosed(rows) == \A i \in 1..Len(rows) : IsClosed(rows[i])
EndsOpen(rows) == Len(rows) > 0 /\ IsOpen(rows[Len(rows)])
AtMostLastOpen(rows) ==
    /\ \A i \in 1..(Len(rows) - 1) : IsClosed(rows[i])
    /\ Len(rows) > 0 => (IsOpen(rows[Len(rows)]) \/ IsClosed(rows[Len(rows)]))

\* What validation reports of a log.
Validation(bytes) == readEntries(OpenFile(bytes), FALSE, NoFault).err

BeginSucceeded == last.core = "begin" /\ last.out = "BEGIN"
EndSucceeded == last.core = "end" /\ last.out = "END"

RECURSIVE SumDurations(_)
SumDurations(rows) ==
    IF Len(rows) = 0 THEN 0
    ELSE ParseTime(Head(rows)[2]) - ParseTime(Head(rows)[1]) + SumDurations(Tail(rows))

----------------------------------------------------------------------------
(* The claims.                                                             *)

\* C1: when begin succeeds the log read back is the previous log's rows,
\* unchanged, followed by exactly one new row of one field, the timestamp;
\* on the empty log that is a file of one line holding one open record.
C1_BeginAppendsOneOpenRecord ==
    BeginSucceeded =>
        /\ Rows(file) = Append(Rows(last.before), <<currentTime(last.t)>>)
        /\ IsOpen(LastRow(file))
        /\ last.before = <<>> =>
              /\ Len(Rows(file)) = 1
              /\ Cardinality({i \in 1..Len(file) : file[i] = NL}) = 1

C1_Witness ==
    /\ BeginSucceeded
    /\ Len(Rows(last.before)) >= 2
    /\ ~AllClosed(Rows(last.before))

\* C2: on a log whose records are all closed, begin directly followed by end
\* leaves a last line of exactly two fields: the first is the value begin
\* wrote, the second a timestamp not earlier than the first.
C2_BeginThenEnd ==
    [][(/\ BeginSucceeded
        /\ AllClosed(Rows(last.before))
        /\ last'.core = "end"
        /\ last'.before = file)
       => (/\ last'.out = "END"
           /\ last'.err = NoErr
           /\ Len(Rows(file')) = Len(Rows(file))
           /\ IsClosed(LastRow(file'))
           /\ LastRow(file')[1] = LastRow(file)[1]
           /\ LastRow(file')[1] = currentTime(last.t)
           /\ ParseTime(LastRow(file')[2]) >= ParseTime(LastRow(file')[1]))]_vars

C2_Witness ==
    /\ EndSucceeded
    /\ Len(Rows(last.before)) >= 2
    /\ AllClosed(SubSeq(Rows(last.before), 1, Len(Rows(last.before)) - 1))
    /\ EndsOpen(Rows(last.before))
    /\ Len(LastRow(file)[1]) < Len(LastRow(file)[2])

\* C3: when end succeeds the number of records is unchanged and every record
\* but the last is what it was before.
C3_EndKeepsOtherRecords ==
    EndSucceeded =>
        /\ Len(Rows(file)) = Len(Rows(last.before))
        /\ \A i \in 1..(Len(Rows(file)) - 1) : Rows(file)[i] = Rows(last.before)[i]

C3_Witness ==
    /\ EndSucceeded
    /\ Len(Rows(last.before)) >= 2
    /\ Len(LastRow(last.before)) = 3
    /\ LastRow(file) # LastRow(last.before)

\* C4: end on the empty log, or on a log whose records are all closed, fails
\* with the no-open-interval error and leaves the file as it was, whether
\* force is on or off.
C4_EndNeedsOpenRecord ==
    (last.core = "end" /\ AllClosed(Rows(last.before))) =>
        /\ last.err = NoIncompleteErr
        /\ last.out = ""
        /\ file = last.before

C4_Witness ==
    /\ last.core = "end"
    /\ ~last.force
    /\ Len(Rows(last.before)) >= 1
    /\ AllClosed(Rows(last.before))
    /\ last.err = NoIncompleteErr

\* C5: begin directly followed by begin on a log that was all closed: with
\* force on the second begin succeeds and the log ends in two one-field lines;
\* with force off it fails with a FormatError of exactly one bad line, the
\* last, and writes nothing.
C5_BeginTwice ==
    [][(/\ BeginSucceeded
        /\ AllClosed(Rows(last.before))
        /\ last'.core = "begin"
        /\ last'.before = file)
       => IF last'.force
          THEN /\ last'.out = "BEGIN"
               /\ Len(Rows(file')) = Len(Rows(file)) + 1
               /\ IsOpen(LastRow(file'))
               /\ IsOpen(Rows(file')[Len(Rows(file))])
          ELSE /\ last'.err = FormatError(<<Len(Rows(file))>>, TRUE)
               /\ last'.out = ""
               /\ file' = file]_vars

\* C6: when validation of the log reports an anomaly other than "just
\* incomplete", begin fails and leaves the log as it was, force on or off.
C6_BeginRefusesMalformedLog ==
    (/\ last.core = "begin"
     /\ IsFormatError(Validation(last.before))
     /\ ~JustIncomplete(Validation(last.before)))
    => (/\ last.err # NoErr
        /\ last.out = ""
        /\ file = last.before)

\* C7 as stated: in every log reached from the empty log by begin, end and
\* next, every record before the last is closed.
C7_AtMostLastOpen == AtMostLastOpen(Rows(file))

ForcedBegin == last.cmd \in {"begin", "run"} /\ EndsOpen(Rows(last.before))

\* C7 as amended: in every log reached from the empty log every record has
\* one or two fields, and every command other than a begin (or run) applied to
\* a log whose last record is open keeps every record before the last closed.
C7_OpenOnlyByForcedBegin ==
    /\ \A i \in 1..Len(Rows(file)) : IsOpen(Rows(file)[i]) \/ IsClosed(Rows(file)[i])
    /\ (AtMostLastOpen(Rows(last.before)) /\ ~ForcedBegin) => AtMostLastOpen(Rows(file))

C7_Witness ==
    /\ last.cmd = "next"
    /\ last.out = "END"
    /\ Len(Rows(file)) >= 2
    /\ AtMostLastOpen(Rows(last.before))
    /\ AllClosed(Rows(file))

\* C8: a read, write or seek of the storage that fails during begin or end is
\* returned as the operation's error, nothing is printed, and after a failed
\* read begin writes nothing.
C8_IOErrorsPropagate ==
    (last.core \in {"begin", "end"} /\ last.failed) =>
        /\ last.err = IOErr
        /\ last.out = ""
        /\ (last.core = "begin" /\ last.fault.kind = "read") => file = last.before

RunExited == last.cmd \in {"wait", "signal"}

\* C9: run begins an interval and then waits: its process ends only on a
\* termination signal, and then with end invoked, the interval closed.
C9_RunEndsOnSignal ==
    RunExited => (last.cmd = "signal" /\ IsClosed(LastRow(file)))

Permuted(rows, p) == [i \in 1..Len(rows) |-> rows[p[i]]]

\* C10: on a log of closed records total returns the sum of end - start over
\* the records, and the same on every reordering of them.
C10_TotalIsSum ==
    (last.cmd = "total" /\ AllClosed(Rows(last.before))) =>
        /\ last.total.present
        /\ last.total.value = SumDurations(Rows(last.before))
        /\ \A p \in Permutations(1..Len(Rows(last.before))) :
              Total(encodeLog(Permuted(Rows(last.before), p))).total = last.total

----------------------------------------------------------------------------
(* Functions applied on their own.                                         *)

MaxListLen == 3         \* spokenList is applied to lists of at most this many items
SpokenItems == {-12, 5, 6, 7}
SpokenLists == UNION {[1..n -> SpokenItems] : n \in 0..MaxListLen}

InitSpoken ==
    /\ file = <<>>
    /\ now = ClockStart
    /\ last = NoCommand
    /\ runPc = "idle"
    /\ procs = NoProcs
    /\ call \in {[NoCall EXCEPT !.fn = "spokenList", !.arg = l] : l \in SpokenLists}

ApplySpokenList ==
    /\ call.fn = "spokenList" /\ ~call.done
    /\ call' = [call EXCEPT !.done = TRUE, !.result = spokenList(call.arg)]
    /\ UNCHANGED <<file, now, last, runPc, procs>>

\* spokenList applied to every list of at most MaxListLen items.
SpecSpoken == InitSpoken /\ [][ApplySpokenList]_vars

RECURSIVE JoinCommaSpace(_)
JoinCommaSpace(list) ==
    IF Len(list) = 1 THEN Sprint(list[1])
    ELSE Sprint(list[1]) \o <<",", " ">> \o JoinCommaSpace(Tail(list))

\* The English list the claim describes.
EnglishList(list) ==
    IF Len(list) = 1 THEN Sprint(list[1])
    ELSE IF Len(list) = 2
         THEN Sprint(list[1]) \o <<" ", "a", "n", "d", " ">> \o Sprint(list[2])
    ELSE JoinCommaSpace(SubSeq(list, 1, Len(list) - 1))
         \o <<",", " ", "a", "n", "d", " ">> \o Sprint(list[Len(list)])

\* C11: spokenList renders a list of one item as the item, of two as
\* "a and b", of three or more as "a, b, and c", in the order given:
\* [5] as "5", [5,6] as "5 and 6", [5,6,7] as "5, 6, and 7".
C11_SpokenList ==
    (call.fn = "spokenList" /\ call.done /\ Len(call.arg) >= 1) =>
        /\ call.result = EnglishList(call.arg)
        /\ call.arg = <<5>> => call.result = <<"5">>
        /\ call.arg = <<5, 6>> => call.result = <<"5", " ", "a", "n", "d", " ", "6">>
        /\ call.arg = <<5, 6, 7>> =>
              call.result = <<"5", ",", " ", "6", ",", " ", "a", "n", "d", " ", "7">>

C11_Witness ==
    /\ call.fn = "spokenList" /\ call.done
    /\ call.arg = <<7, -12, 5>>
    /\ call.result = <<"7", ",", " ", "-", "1", "2", ",", " ", "a", "n", "d", " ", "5">>

----------------------------------------------------------------------------
(* readEntries applied on its own.                                         *)

MaxReadRows == 3        \* readEntries is applied to logs of at most this many rows
ReadLogs == UNION {[1..n -> InitRows] : n \in 0..MaxReadRows}

InitRead ==
    /\ file = <<>>
    /\ now = ClockStart
    /\ last = NoCommand
    /\ runPc = "idle"
    /\ procs = NoProcs
    /\ call \in {[NoCall EXCEPT !.fn = "readEntries", !.arg = encodeLog(rows), !.filter = f] :
                    rows \in ReadLogs, f \in BOOLEAN}

ApplyReadEntries ==
    /\ call.fn = "readEntries" /\ ~call.done
    /\ LET r == readEntries(OpenFile(call.arg), call.filter, NoFault)
       IN call' = [call EXCEPT !.done = TRUE,
                               !.result = [entries |-> r.entries, err |-> r.err]]
    /\ UNCHANGED <<file, now, last, runPc, procs>>

\* readEntries applied to every log of at most MaxReadRows rows, filter on and off.
SpecRead == InitRead /\ [][ApplyReadEntries]_vars

ReadDone == call.fn = "readEntries" /\ call.done

\* The positions, ascending from 1, of the rows of the given field counts.
PositionsOf(rows, counts) ==
    LET Hit(i) == Len(rows[i]) \in counts
    IN SelectSeq([i \in 1..Len(rows) |-> i], Hit)

FieldCounts == 0..(MaxFields + MaxFileLen)

\* C12 as stated: the bad lines readEntries reports are the positions,
\* ascending from 1, of the rows with neither one nor two fields; a row of one
\* field is not reported.
C12_BadLinesAreMalformedRows ==
    ReadDone => call.result.err.BadLines = PositionsOf(Rows(call.arg), FieldCounts \ {1, 2})

\* C12 as amended: the bad lines readEntries reports are the positions,
\* ascending from 1, of the rows whose field count is not two, the rows of one
\* field among them; with no such row the error is nil.
C12_BadLinesAreRowsNotOfTwoFields ==
    ReadDone =>
        /\ call.result.err.BadLines = PositionsOf(Rows(call.arg), FieldCounts \ {2})
        /\ call.result.err = NoErr <=> AllClosed(Rows(call.arg))
        /\ call.result.err # NoErr => IsFormatError(call.result.err)

C12_Witness ==
    /\ ReadDone
    /\ Len(Rows(call.arg)) = 3
    /\ Len(Rows(call.arg)[1]) = 1 /\ Len(Rows(call.arg)[2]) = 2 /\ Len(Rows(call.arg)[3]) = 3
    /\ call.result.err.BadLines = <<1, 3>>

\* C13: the report of readEntries is "just incomplete" exactly when the log is
\* zero or more rows of two fields followed by one last row of one field.
C13_JustIncompleteIsOpenTail ==
    ReadDone =>
        ((IsFormatError(call.result.err) /\ JustIncomplete(call.result.err))
         <=> (/\ EndsOpen(Rows(call.arg))
              /\ AllClosed(SubSeq(Rows(call.arg), 1, Len(Rows(call.arg)) - 1))))

\* C14: with filter on readEntries returns only the rows it does not report
\* as bad; with filter off it returns every row, in the order of the log.
C14_FilterDropsBadRows ==
    ReadDone =>
        IF call.filter
        THEN call.result.entries = SelectSeq(Rows(call.arg), IsClosed)
        ELSE call.result.entries = Rows(call.arg)

----------------------------------------------------------------------------
(* endEntry on logs with bad rows, and the bytes it rewrites.              *)

\* C15: when validation in end reports the last line bad and more than one
\* line bad, then with force off end returns the FormatError and leaves the
\* log as it was, and with force on it goes on and rewrites only the last
\* record, as that record with the end timestamp appended.
C15_EndWithSeveralBadLines ==
    (/\ last.core = "end"
     /\ IsFormatError(Validation(last.before))
     /\ Validation(last.before).LastIsBad
     /\ Len(Validation(last.before).BadLines) > 1)
    => IF ~last.force
       THEN /\ last.err = Validation(last.before)
            /\ last.out = ""
            /\ file = last.before
       ELSE /\ last.err = NoErr
            /\ last.out = "END"
            /\ Len(Rows(file)) = Len(Rows(last.before))
            /\ \A i \in 1..(Len(Rows(file)) - 1) : Rows(file)[i] = Rows(last.before)[i]
            /\ LastRow(file) = Append(LastRow(last.before), currentTime(last.t))

\* C16: whenever end succeeds, also on a log whose last row has a field count
\* other than one, the last record of the result has exactly two fields: the
\* first field of the previous last record, then the end timestamp.
C16_EndLeavesClosedRecord ==
    EndSucceeded =>
        LastRow(file) = <<LastRow(last.before)[1], currentTime(last.t)>>

Max(S) == CHOOSE x \in S : \A y \in S : y <= x

\* The byte offset at which the last line of a log begins.
LastLineStart(bytes) ==
    LET breaks == {i \in 1..(Len(bytes) - 1) : bytes[i] = NL}
    IN IF breaks = {} THEN 0 ELSE Max(breaks)

\* Where the write of end began: its final position less the bytes it wrote.
EndWriteStart == last.pos - Len(csvEncode(completedRow(LastRow(last.before), last.t)))

\* C17: in every log reached from the empty log by begin, end and next, when
\* end rewrites, the position it seeks to (length of the last record's first
\* field + 1 before the end) is the offset at which the last record's line
\* begins: the bytes before it are untouched and the rest is the new line.
C17_RewindToLineStart ==
    EndSucceeded =>
        /\ EndWriteStart = LastLineStart(last.before)
        /\ EndWriteStart = Len(last.before) - (Len(LastRow(last.before)[1]) + 1)
        /\ SubSeq(file, 1, EndWriteStart) = SubSeq(last.before, 1, EndWriteStart)
        /\ SubSeq(file, EndWriteStart + 1, Len(file))
              = csvEncode(<<LastRow(last.before)[1], currentTime(last.t)>>)

C17_Witness ==
    /\ EndSucceeded
    /\ Len(Rows(last.before)) >= 2
    /\ Len(LastRow(last.before)[1]) = 2
    /\ EndWriteStart > 0

\* C18: across begin, end and next no record is deleted and no closed record
\* changes: the record count never falls, begin adds exactly one record, end
\* adds none, and a record of two fields stays as it is in every later log.
C18_RecordsKept ==
    [][/\ Len(Rows(file')) >= Len(Rows(file))
       /\ \A i \in 1..Len(Rows(file)) :
             IsClosed(Rows(file)[i]) => Rows(file')[i] = Rows(file)[i]
       /\ (last'.core = "begin" /\ last'.out = "BEGIN" /\ last'.before = file)
             => Len(Rows(file')) = Len(Rows(file)) + 1
       /\ (last'.core = "end" /\ last'.before = file)
             => Len(Rows(file')) = Len(Rows(file))]_vars

C18_Witness ==
    /\ EndSucceeded
    /\ Len(Rows(file)) >= 3
    /\ IsClosed(Rows(file)[1])
    /\ IsOpen(Rows(file)[2])

----------------------------------------------------------------------------
(* next.                                                                   *)

\* C19: next ends the entry when the last row of the log is not a closed
\* record and begins one otherwise; so after n calls of next in a row from the
\* empty log, all successful, the log has ceil(n/2) records, every one closed
\* but the last, which is open exactly when n is odd.
C19_NextAlternates ==
    /\ (last.cmd = "next" /\ last.err = NoErr) =>
          IF Rows(last.before) # <<>> /\ ~IsClosed(LastRow(last.before))
          THEN /\ last.core = "end"
               /\ last.out = "END"
               /\ Len(Rows(file)) = Len(Rows(last.before))
               /\ LastRow(file) = <<LastRow(last.before)[1], currentTime(last.t)>>
          ELSE /\ last.core = "begin"
               /\ last.out = "BEGIN"
               /\ file = last.before \o csvEncode(<<currentTime(last.t)>>)
    /\ last.nexts >= 0 =>
          /\ Len(Rows(file)) = (last.nexts + 1) \div 2
          /\ \A i \in 1..(Len(Rows(file)) - 1) : IsClosed(Rows(file)[i])
          /\ last.nexts % 2 = 1 => IsOpen(LastRow(file))
          /\ (last.nexts % 2 = 0 /\ last.nexts > 0) => IsClosed(LastRow(file))

C19_Witness ==
    /\ last.cmd = "next"
    /\ last.nexts = 5
    /\ Len(Rows(file)) = 3
    /\ IsOpen(LastRow(file))

----------------------------------------------------------------------------
(* Two invocations on one file.  Each opens the file for itself (its own    *)
(* position, no O_APPEND, no lock).  Its steps are the reads of the file    *)
(* that readEntries makes until one returns nothing, the reading of the     *)
(* clock, the seek of endEntry, and the write.  Anything may happen to the  *)
(* file and the clock between two of these.  Both run Begin or End, which   *)
(* pass force = true.                                                       *)

RaceOps == {"begin", "end"}

\* The logs the two invocations find: closed and open records.
RaceRows == {<<currentTime(3)>>, <<currentTime(10)>>, <<currentTime(3), currentTime(3)>>}
RaceLogs == {encodeLog(rows) : rows \in UNION {[1..n -> RaceRows] : n \in 0..MaxInitRecords}}

NewProc(op) ==
    [op |-> op, pc |-> "start", pos |-> 0, buf |-> <<>>, row |-> <<>>, err |-> NoErr, out |-> ""]

\* The invocation's view of the file: the bytes on disk now, at the position
\* its own descriptor has kept.
handleOf(p, bytes) == [data |-> bytes, pos |-> p.pos]

\* Line 455, one read of the file by reader.ReadAll: the bytes from the
\* descriptor's position to the end the file has now.  None means end of file.
readChunk(p, bytes) == SubSeq(bytes, p.pos + 1, Len(bytes))

\* The bytes of one read are kept and the position moves past them.
readMore(p, bytes) ==
    [p EXCEPT !.pc = "read", !.buf = @ \o readChunk(p, bytes), !.pos = Len(bytes)]

\* Lines 480-486: at end of file beginEntry has the rows of all it read, and decides.
beginRead(p) ==
    LET r == readEntries(OpenFile(p.buf), FALSE, NoFault)
    IN IF beginReturnsError(r.err, TRUE)
       THEN [p EXCEPT !.pc = "done", !.err = r.err]
       ELSE [p EXCEPT !.pc = "clock"]

\* Lines 496-505 and 514-516: at end of file endEntry has the rows of all it
\* read, and decides.
endRead(p) ==
    LET r == readEntries(OpenFile(p.buf), FALSE, NoFault)
    IN IF r.err = NoErr
       THEN [p EXCEPT !.pc = "done", !.err = endNoError]
       ELSE IF ~(IsFormatError(r.err) /\ r.err.LastIsBad) \/ endRefuses(r.err, TRUE)
       THEN [p EXCEPT !.pc = "done", !.err = r.err]
       ELSE [p EXCEPT !.pc = "clock", !.row = r.entries[Len(r.entries)]]

\* Line 489: the row beginEntry will write, with the time read now.
beginClock(p, t) == [p EXCEPT !.pc = "write", !.row = <<currentTime(t)>>]

\* Line 506: the completed row, with the time read now.
endClock(p, t) == [p EXCEPT !.pc = "seek", !.row = completedRow(@, t)]

\* Line 507: the seek from the end the file has now.
endSeek(p, bytes) ==
    [p EXCEPT !.pc = "write",
              !.pos = streamSeekEnd(handleOf(p, bytes), rewindOffset(p.row), NoFault).pos]

writeAt_Append(p, bytes) ==
    streamWrite([data |-> bytes, pos |-> Len(bytes)], csvEncode(p.row), NoFault)

\* Lines 488-490 and 508-510: the row is written at the descriptor's position.
writeAt(p, bytes) == streamWrite(handleOf(p, bytes), csvEncode(p.row), NoFault)

\* Lines 491 and 511: what the invocation prints once it has written.
wrote(p, rw) ==
    [p EXCEPT !.pc = "done", !.pos = rw.pos, !.out = IF p.op = "begin" THEN "BEGIN" ELSE "END"]

Other(i) == 3 - i

\* The invocation i takes its step while the other is between two of its own.
Amid(i) == procs.run[Other(i)].pc \notin {"start", "done"}

\* One read of the file.  A read that returns bytes is followed by another.
ProcRead(i) ==
    /\ procs.run[i].pc \in {"start", "read"}
    /\ procs' = [procs EXCEPT
                   !.run[i] = IF readChunk(@, file) # <<>> THEN readMore(@, file)
                              ELSE IF @.op = "begin" THEN beginRead(@) ELSE endRead(@),
                   !.order = IF procs.run[i].pc = "start" THEN Append(@, i) ELSE @,
                   !.overlap = @ \/ Amid(i)]
    /\ UNCHANGED <<file, now, last, runPc, call>>

\* The reading of the clock, after the read and before the seek or the write.
ProcClock(i) ==
    /\ procs.run[i].pc = "clock"
    /\ \E t \in Clock :
        /\ now' = t
        /\ procs' = [procs EXCEPT
                       !.run[i] = IF @.op = "begin" THEN beginClock(@, t) ELSE endClock(@, t),
                       !.times[i] = t,
                       !.overlap = @ \/ Amid(i)]
    /\ UNCHANGED <<file, last, runPc, call>>

ProcSeek(i) ==
    /\ procs.run[i].pc = "seek"
    /\ procs' = [procs EXCEPT !.run[i] = endSeek(@, file),
                              !.overlap = @ \/ Amid(i)]
    /\ UNCHANGED <<file, now, last, runPc, call>>

ProcWrite(i) ==
    /\ procs.run[i].pc = "write"
    /\ LET rw == writeAt(procs.run[i], file)
       IN /\ file' = rw.data
          /\ procs' = [procs EXCEPT !.run[i] = wrote(@, rw),
                                    !.overlap = @ \/ Amid(i)]
    /\ UNCHANGED <<now, last, runPc, call>>

InitRace ==
    /\ file \in RaceLogs
    /\ now = ClockStart
    /\ last = NoCommand
    /\ runPc = "idle"
    /\ call = NoCall
    /\ procs \in {[start |-> file, order |-> <<>>, overlap |-> FALSE, times |-> <<0, 0>>,
                   run |-> <<NewProc(a), NewProc(b)>>] : a, b \in RaceOps}

NextRace == \E i \in {1, 2} : ProcRead(i) \/ ProcClock(i) \/ ProcSeek(i) \/ ProcWrite(i)

\* Two invocations of begin or end on a log, interleaved in every way.
SpecRace == InitRace /\ [][NextRace]_vars

\* One command run alone on a log, and two run one after the other.
RunAlone(op, bytes, t) ==
    IF op = "begin" THEN Begin(bytes, t, NoFault) ELSE End(bytes, t, NoFault)

Serial(bytes, opA, tA, opB, tB) == RunAlone(opB, RunAlone(opA, bytes, tA).rw.data, tB)

\* Every log the two commands can leave when run one after the other, in
\* either order, at any times the clock can give.
SerialLogs ==
    {Serial(procs.start, procs.run[i].op, tA, procs.run[Other(i)].op, tB).rw.data :
        i \in {1, 2}, tA \in ClockStart..MaxClock, tB \in ClockStart..MaxClock}

RaceDone == procs.run[1].pc = "done" /\ procs.run[2].pc = "done"

\* C20: two invocations that do not overlap leave the log, the errors and
\* the output of the serial run in the order they ran; a final log that no
\* serial order gives comes only from an overlap.  That such a log exists is
\* the reachable state C20_Witness.
C20_OnlyOverlapCorrupts ==
    RaceDone =>
        /\ ~procs.overlap =>
              LET a == procs.order[1]
                  b == procs.order[2]
                  first == RunAlone(procs.run[a].op, procs.start, procs.times[a])
                  second == RunAlone(procs.run[b].op, first.rw.data, procs.times[b])
              IN /\ file = second.rw.data
                 /\ procs.run[a].err = first.err /\ procs.run[a].out = first.out
                 /\ procs.run[b].err = second.err /\ procs.run[b].out = second.out
        /\ file \notin SerialLogs => procs.overlap

\* Both invocations report success, yet the log is none a serial run leaves
\* and holds fewer records than the serial runs do: one write replaced the other.
C20_Witness ==
    /\ RaceDone
    /\ procs.overlap
    /\ procs.run[1].err = NoErr /\ procs.run[2].err = NoErr
    /\ file \notin SerialLogs
    /\ \A l \in SerialLogs : Len(Rows(file)) < Len(Rows(l))

====
